---- MODULE Spec2Model ----
(***************************************************************************)
(* WBMatch (src/listing-match.py): resolution of a name, with an optional  *)
(* postal code, boundary or polygon, to one listing of the search index.   *)
(*                                                                         *)
(* Python values are records tagged by "ty".  A Python string is a         *)
(* sequence of one-character strings.  Relevance scores are integers.      *)
(* Coordinates are integers counting 1/200 of a degree, so that the        *)
(* midpoint of two coordinates is an integer again.                        *)
(***************************************************************************)
EXTENDS Integers, Sequences, FiniteSets, TLC

(***************************************************************************)
(* Python values                                                           *)
(***************************************************************************)
None == [ty |-> "None"]
Str(s) == [ty |-> "str", v |-> s]
NaN == [ty |-> "float", nan |-> TRUE]
IsStr(x) == x.ty = "str"

(***************************************************************************)
(* str.lstrip(' '), str.upper(), str.index(",")                            *)
(***************************************************************************)
RECURSIVE lstrip(_)
lstrip(s) == IF s # <<>> /\ Head(s) = " " THEN lstrip(Tail(s)) ELSE s

\* upper() of one character; "sz" stands for the sharp s, whose upper case
\* is the two characters SS.
UpperOf(c) ==
    CASE c = "k" -> <<"K">>
      [] c = "a" -> <<"A">>
      [] c = "b" -> <<"B">>
      [] c = "d" -> <<"D">>
      [] c = "sz" -> <<"S", "S">>
      [] OTHER -> <<c>>

RECURSIVE upper(_)
upper(s) == IF s = <<>> THEN <<>> ELSE UpperOf(Head(s)) \o upper(Tail(s))

HasComma(s) == \E i \in 1..Len(s) : s[i] = ","
\* 1-based position of the first comma (str.index(",") + 1)
IndexComma(s) == CHOOSE i \in 1..Len(s) : s[i] = "," /\ \A j \in 1..(i - 1) : s[j] # ","

(***************************************************************************)
(* normalize_postalcode                                                    *)
(***************************************************************************)
InsertSpace(s) == IF Len(s) = 6 THEN SubSeq(s, 1, 3) \o <<" ">> \o SubSeq(s, 4, 6) ELSE s

\* the space inserted before the leading spaces are removed
normalize_postalcode_spaceFirst(PC) ==
    IF PC = None \/ PC.ty = "float" THEN None
    ELSE Str(upper(lstrip(InsertSpace(PC.v))))

normalize_postalcode(PC) ==
    IF PC = None \/ PC.ty = "float" THEN None
    ELSE Str(upper(InsertSpace(lstrip(PC.v))))

(***************************************************************************)
(* zipCode: ^(?!.*[DFIOQU])[A-VXY][0-9][A-Z]\s[0-9][A-Z][0-9]$             *)
(* The strings of the model hold no newline, so $ is the end of the string.*)
(***************************************************************************)
Digits == {"0", "1", "2", "3", "4", "5", "6", "7", "8", "9"}
Letters == {"A", "B", "C", "D", "E", "F", "G", "H", "I", "J", "K", "L", "M",
            "N", "O", "P", "Q", "R", "S", "T", "U", "V", "W", "X", "Y", "Z"}
Forbidden == {"D", "F", "I", "O", "Q", "U"}
FirstLetters == Letters \ {"W", "Z"}
Whitespace == {" ", "\t"}

zipCodeMatch(s) ==
    /\ \A i \in 1..Len(s) : s[i] \notin Forbidden
    /\ Len(s) = 7
    /\ s[1] \in FirstLetters
    /\ s[2] \in Digits
    /\ s[3] \in Letters
    /\ s[4] \in Whitespace
    /\ s[5] \in Digits
    /\ s[6] \in Letters
    /\ s[7] \in Digits

(***************************************************************************)
(* get_geocode: lookup is what pgeocode's query_postal_code answers, the   *)
(* [longitude, latitude] of the code, both NaN when the code is not in its *)
(* data.                                                                   *)
(***************************************************************************)
LonLat(lon, lat) == [ty |-> "list", lon |-> lon, lat |-> lat]
NaNPair == [ty |-> "list", nan |-> TRUE]

get_geocode(location, lookup) ==
    IF location = None \/ location.ty = "float" THEN None
    ELSE IF zipCodeMatch(normalize_postalcode(location).v) THEN lookup
         ELSE None

(***************************************************************************)
(* The effects a call has on the world, in the order they happen.          *)
(***************************************************************************)
GeocodeEv(q, answer) == [ev |-> "geocode", q |-> q, answer |-> answer]
SleepEv(secs) == [ev |-> "sleep", secs |-> secs]
SearchEv(params) == [ev |-> "search", params |-> params]

\* What a call gives back: a value, or the exception it raises.
Returns(value, trace) == [exc |-> "none", value |-> value, trace |-> trace]
Raises(exc, trace) == [exc |-> exc, value |-> None, trace |-> trace]

(***************************************************************************)
(* get_bounds.  g1 and g2 are the geocoder's answers to the first and to   *)
(* the second locator.geocode call: Miss (geocode returns None, and .raw   *)
(* raises AttributeError) or Place(<<south, north, west, east>>), a place  *)
(* with that raw boundingbox.                                              *)
(***************************************************************************)
Miss == [ty |-> "None"]
Place(boundingbox) == [ty |-> "Location", boundingbox |-> boundingbox]
RateLimiter == 1
CanadaBounds == <<<<-33346, 15254>>, <<-5748, 8236>>>>
Reformat(location) == <<<<location[3], location[2]>>, <<location[4], location[1]>>>>

\* searchstring[searchstring.index(",")+1:].lstrip(' ')
Broaden(s) == lstrip(SubSeq(s, IndexComma(s) + 1, Len(s)))

\* get_bounds without the sleep after a broadened retry that found a place
get_bounds_retryNoSleep(searchstring, g1, g2) ==
    LET first == <<GeocodeEv(searchstring, g1)>> IN
    IF g1 # Miss
    THEN Returns(Reformat(g1.boundingbox), first \o <<SleepEv(RateLimiter)>>)
    ELSE IF ~IsStr(searchstring) THEN Raises("AttributeError", first)
    ELSE IF ~HasComma(searchstring.v) THEN Raises("ValueError", first)
    ELSE LET broad == Str(Broaden(searchstring.v))
             both == first \o <<GeocodeEv(broad, g2)>>
         IN  IF g2 # Miss
             THEN Returns(Reformat(g2.boundingbox), both)
             ELSE Returns(CanadaBounds, both)

get_bounds(searchstring, g1, g2) ==
    LET first == <<GeocodeEv(searchstring, g1)>> IN
    IF g1 # Miss
    THEN Returns(Reformat(g1.boundingbox), first \o <<SleepEv(RateLimiter)>>)
    ELSE IF ~IsStr(searchstring) THEN Raises("AttributeError", first)
    ELSE IF ~HasComma(searchstring.v) THEN Raises("ValueError", first)
    ELSE LET broad == Str(Broaden(searchstring.v))
             both == first \o <<GeocodeEv(broad, g2)>>
         IN  IF g2 # Miss
             THEN Returns(Reformat(g2.boundingbox), both \o <<SleepEv(RateLimiter)>>)
             ELSE Returns(CanadaBounds, both)

(***************************************************************************)
(* ES_Query.  lookup is the offline postal lookup's answer, transport      *)
(* tells whether client.search_template raises TransportError, and hits    *)
(* is response["hits"]["hits"] otherwise.                                  *)
(***************************************************************************)
Msg(m) == [ty |-> "str", msg |-> m]
Missing == [ty |-> "missing"]
DataFrame(rows) == [ty |-> "DataFrame", rows |-> rows]
IsDataFrame(x) == x.ty = "DataFrame"

\* The candidate table: one row per hit, indexed by the hit's id, the
\* relevance score in the first column; no z and no clusters column yet.
\* The hits are taken to carry the fields the later steps read (postalCode,
\* name, alsoKnownAs, locality, tags.denomination).
Flatten(hits) ==
    [i \in 1..Len(hits) |->
        [id |-> i, score |-> hits[i].score, postalCode |-> hits[i].postalCode,
         z |-> Missing, clusters |-> Missing]]

Center(b) == <<(b[1][1] + b[2][1]) \div 2, (b[1][2] + b[2][2]) \div 2>>

PolygonParams(namestring, polygon) ==
    [keywords |-> namestring, geo |-> "polygon", polygon |-> polygon]
BoundsParams(namestring, b) ==
    [keywords |-> namestring, geo |-> "bounds", lowerbounds |-> b[1],
     upperbounds |-> b[2], center |-> Center(b)]
CenterParams(namestring, point) ==
    [keywords |-> namestring, geo |-> "center", center |-> point]
NameParams(namestring) == [keywords |-> namestring, geo |-> "none"]

\* a search whose empty answer is flattened like any other
Search_noEmptyCheck(params, before, transport, hits) ==
    LET trace == before \o <<SearchEv(params)>> IN
    IF transport THEN Raises("TransportError", trace)
    ELSE Returns(DataFrame(Flatten(hits)), trace)

\* client.search_template and what ES_Query makes of its answer
Search(params, before, transport, hits) ==
    LET trace == before \o <<SearchEv(params)>> IN
    IF transport THEN Raises("TransportError", trace)
    ELSE IF Len(hits) = 0 THEN Returns(Msg("No match found"), trace)
    ELSE Returns(DataFrame(Flatten(hits)), trace)

NoName(namestring) == namestring = None

\* the chain with the boundaries tested before the polygon
GeoMode_boundsFirst(polygon, boundaries, postcode) ==
    IF boundaries # None THEN "bounds"
    ELSE IF polygon # None THEN "polygon"
    ELSE IF postcode # None THEN "center"
    ELSE "none"

\* the branch of the if / elif chain; postcode is the reverse-geocoded point
GeoMode(polygon, boundaries, postcode) ==
    IF polygon # None THEN "polygon"
    ELSE IF boundaries # None THEN "bounds"
    ELSE IF postcode # None THEN "center"
    ELSE "none"

ES_Query(namestring, postcode, boundaries, polygon, g1, g2, lookup, transport, hits) ==
    IF NoName(namestring) THEN Returns(Msg("No name supplied"), <<>>)
    ELSE LET point == get_geocode(normalize_postalcode(postcode), lookup)
             mode == GeoMode(polygon, boundaries, point)
         IN
         IF mode = "polygon"
         THEN Search(PolygonParams(namestring, polygon), <<>>, transport, hits)
         ELSE IF mode = "bounds"
         THEN IF boundaries.ty \in {"str", "dict"}
              THEN LET b == get_bounds(boundaries, g1, g2) IN
                   IF b.exc # "none" THEN b
                   ELSE Search(BoundsParams(namestring, b.value), b.trace, transport, hits)
              ELSE Search(BoundsParams(namestring, boundaries.v), <<>>, transport, hits)
         ELSE IF mode = "center"
         THEN Search(CenterParams(namestring, point), <<>>, transport, hits)
         ELSE Search(NameParams(namestring), <<>>, transport, hits)

(***************************************************************************)
(* get_confidence.  A float is kept as a count of 1/200: Float(n) is       *)
(* n/200, and a confidence is computed to hundredths.  scipy's zscore of x in a column of n scores with    *)
(* sum S and sum of squares Q is (n*x - S) / sqrt(n*Q - S*S); with all     *)
(* scores equal it is 0/0, which numpy evaluates to NaN.                   *)
(***************************************************************************)
Float(n) == [ty |-> "float", v |-> n]
IsFloat(x) == x.ty = "float"

RECURSIVE SumOver(_, _)
SumOver(f, n) == IF n = 0 THEN 0 ELSE f[n] + SumOver(f, n - 1)

\* the integer square root, by bisection between lo and hi
RECURSIVE Bisect(_, _, _)
Bisect(v, lo, hi) ==
    IF lo >= hi THEN lo
    ELSE LET mid == (lo + hi + 1) \div 2 IN
         IF mid * mid <= v THEN Bisect(v, mid, hi) ELSE Bisect(v, lo, mid - 1)
ISqrt(v) == Bisect(v, 0, 46340)

Abs(x) == IF x < 0 THEN -x ELSE x

\* twice thresh (thresh = 3.5)
thresh2 == 7

\* abs(stats.zscore(points.score)) / thresh * 100 for the row of score x
ZConfidence(x, scores) ==
    LET n == Len(scores)
        S == SumOver(scores, n)
        Q == SumOver([i \in 1..n |-> scores[i] * scores[i]], n)
        D == n * Q - S * S
    IN  IF D = 0 THEN NaN
        ELSE Float(2 * ((2000000 * Abs(n * x - S)) \div (thresh2 * ISqrt(10000 * D))))

Scores(rows) == [i \in 1..Len(rows) |-> rows[i].score]

get_confidence(points) ==
    IF Len(points) = 1
    THEN [i \in 1..1 |-> [points[i] EXCEPT !.z = Msg("Sole Return Before Clustering")]]
    ELSE [i \in 1..Len(points) |->
            [points[i] EXCEPT !.z = ZConfidence(points[i].score, Scores(points))]]

(***************************************************************************)
(* get_cluster: DBSCAN(min_samples=1, eps=epsilon) on the score column.    *)
(* With min_samples=1 every point is a core point, so a cluster is a set   *)
(* of points chained by steps of at most eps; fit_predict numbers the      *)
(* clusters from 0 in the order their first point appears.                 *)
(***************************************************************************)
\* neighbourhoods that leave out the points at exactly eps
Neighbours_open(scores, S, eps) ==
    S \cup {j \in 1..Len(scores) : \E i \in S : Abs(scores[i] - scores[j]) < eps}

Neighbours(scores, S, eps) ==
    S \cup {j \in 1..Len(scores) : \E i \in S : Abs(scores[i] - scores[j]) <= eps}

RECURSIVE Grow(_, _, _)
Grow(scores, S, eps) ==
    LET T == Neighbours(scores, S, eps) IN
    IF T = S THEN S ELSE Grow(scores, T, eps)

ClusterOf(scores, i, eps) == Grow(scores, {i}, eps)

Smallest(S) == CHOOSE i \in S : \A j \in S : i <= j

\* the label fit_predict gives point i
Label(scores, i, eps) ==
    Cardinality({Smallest(ClusterOf(scores, j, eps)) :
                    j \in 1..(Smallest(ClusterOf(scores, i, eps)) - 1)})

get_cluster(results, epsilon) ==
    [i \in 1..Len(results) |->
        [results[i] EXCEPT !.clusters = Label(Scores(results), i, epsilon)]]

(***************************************************************************)
(* The bounded world: the arguments of a call and the index's hits.        *)
(***************************************************************************)
MaxHits == 3
MaxHitsGeo == 1

Names == {None, Str(<<>>), Str(<<"S", "t">>)}
Postcodes == {None,
              Str(<<"k", "1", "a", "0", "b", "1">>),
              Str(<<"1", "2", "3", "4", "5">>)}
Boundaries == {None,
               [ty |-> "list", v |-> <<<<-15200, 9100>>, <<-15100, 9000>>>>],
               Str(<<"s", ",", " ", "c">>),
               Str(<<"c">>),
               [ty |-> "dict"]}
Polygons == {None,
             [ty |-> "list",
              v |-> <<<<-15200, 9100>>, <<-15100, 9000>>, <<-15200, 9000>>>>]}
Epsilons == {4, 40}

\* the hits the index can hold: a relevance score and a raw postal code
Hit(score, postalCode) == [score |-> score, postalCode |-> postalCode]
Hits == {Hit(10, Str(<<"K", "1", "A", "0", "B", "1">>)),
         Hit(50, Str(<<"K", "1", "A", " ", "0", "B", "1">>)),
         Hit(51, Str(<<"M", "5", "V", " ", "2", "T", "6">>)),
         Hit(90, Str(<<"k", "1", "a", " ", "0", "b", "1">>))}
HitLists(n) == UNION {[1..k -> Hits] : k \in 0..n}

\* the answers of the geocoder, of the offline postal lookup and of
\* fuzz.partial_ratio
GeocodeAnswers == {Miss, Place(<<9000, 9100, -15200, -15100>>)}
LookupAnswers == {LonLat(-15140, 9084), NaNPair}
Ratios == {40, 100}

(***************************************************************************)
(* WB_Match as a state machine                                             *)
(***************************************************************************)
VARIABLES
    args,       \* the arguments of the call
    hits,       \* the hits the index holds for this query
    pc,         \* where WB_Match is
    attempts,   \* the ES_Query attempts made so far
    outcomes,   \* how each attempt ended: "value" or the exception's name
    trace,      \* the effects of the latest ES_Query attempt
    results,    \* the local results, Unbound before its first assignment
    postcode,   \* the local postcode
    scored,     \* whether get_confidence has run
    clustered,  \* whether get_cluster has run
    ret,        \* the value returned, NotYet before the return
    exc,        \* the exception raised, "none" when none
    DiagnosticDictionary,   \* the caller's map object, as the calls leave it
    given,      \* the map as the caller built it
    first,      \* how the first call with the map ended, NotYet during it
    text,       \* a value handed to the postal-code functions
    once,       \* normalize_postalcode(text)
    twice,      \* normalize_postalcode(normalize_postalcode(text))
    answer,     \* what pgeocode answered for it
    located     \* get_geocode(text)

\* the caller's side of the diagnostic map, and the postal-code functions
\* called on their own
caller == <<given, first>>
postal == <<text, once, twice, answer, located>>

vars == <<args, hits, pc, attempts, outcomes, trace, results, postcode,
          scored, clustered, ret, exc, DiagnosticDictionary, caller, postal>>

Unbound == [ty |-> "unbound"]
NotYet == [ty |-> "notyet"]
MaxAttempts == 3

Call(a, h) ==
    /\ args = a
    /\ hits = h
    /\ pc = "loop"
    /\ attempts = 0
    /\ outcomes = <<>>
    /\ trace = <<>>
    /\ results = Unbound
    /\ postcode = a.postcode
    /\ scored = FALSE
    /\ clustered = FALSE
    /\ ret = NotYet
    /\ exc = "none"

Arguments ==
    [namestring : Names, postcode : Postcodes, boundaries : Boundaries,
     polygon : Polygons, epsilon : Epsilons]

\* a call with DiagnosticDictionary = None
NoDiagnostics ==
    /\ DiagnosticDictionary = None
    /\ given = None
    /\ first = NotYet

\* no postal-code function is called on its own
NoPostal ==
    /\ text = NotYet
    /\ once = NotYet
    /\ twice = NotYet
    /\ answer = NotYet
    /\ located = NotYet

\* Calls with a boundary or a polygon are explored on hit lists of at most
\* MaxHitsGeo hits, the others on hit lists of at most MaxHits hits.
Init ==
    /\ \E a \in Arguments :
           \E h \in HitLists(IF a.boundaries = None /\ a.polygon = None
                             THEN MaxHits ELSE MaxHitsGeo) :
               Call(a, h)
    /\ NoDiagnostics
    /\ NoPostal

(***************************************************************************)
(* The retry loop: for attempts in range(0,3), try ES_Query, continue on   *)
(* elasticsearch.TransportError, break otherwise.  Any other exception     *)
(* leaves WB_Match.                                                        *)
(***************************************************************************)
\* a loop that swallows every exception
Retried_any(e) == TRUE

Retried(e) == e = "TransportError"

Attempt ==
    /\ pc = "loop"
    /\ attempts < MaxAttempts
    /\ \E g1 \in GeocodeAnswers, g2 \in GeocodeAnswers, lookup \in LookupAnswers,
          transport \in BOOLEAN :
          LET r == ES_Query(args.namestring, args.postcode, args.boundaries,
                            args.polygon, g1, g2, lookup, transport, hits)
          IN  /\ attempts' = attempts + 1
              /\ trace' = r.trace
              /\ outcomes' = Append(outcomes, IF r.exc = "none" THEN "value" ELSE r.exc)
              /\ IF r.exc = "none"
                 THEN /\ results' = r.value
                      /\ pc' = "after"
                      /\ exc' = exc
                 ELSE IF Retried(r.exc)
                 THEN /\ results' = results
                      /\ pc' = IF attempts + 1 < MaxAttempts THEN "loop" ELSE "after"
                      /\ exc' = exc
                 ELSE /\ results' = results
                      /\ pc' = "raised"
                      /\ exc' = r.exc
    /\ UNCHANGED <<args, hits, postcode, scored, clustered, ret,
                   DiagnosticDictionary, caller, postal>>

\* CONF = float("NaN"); if isinstance(results, pd.DataFrame) == False: return
\* Reading results before any attempt assigned it raises UnboundLocalError.
Check ==
    /\ pc = "after"
    /\ IF results = Unbound
       THEN /\ pc' = "raised"
            /\ exc' = "UnboundLocalError"
            /\ ret' = ret
       ELSE IF ~IsDataFrame(results)
       THEN /\ pc' = "returned"
            /\ ret' = None
            /\ exc' = exc
       ELSE /\ pc' = "filter"
            /\ ret' = ret
            /\ exc' = exc
    /\ UNCHANGED <<args, hits, attempts, outcomes, trace, results, postcode,
                   scored, clustered, DiagnosticDictionary, caller, postal>>

(***************************************************************************)
(* The postal filter and the confidence                                    *)
(***************************************************************************)
\* the candidates' postal codes compared as the index holds them
NormalizeRows_raw(rows) == rows

NormalizeRows(rows) ==
    [i \in 1..Len(rows) |->
        [rows[i] EXCEPT !.postalCode = normalize_postalcode(rows[i].postalCode)]]

\* results[results["postalCode"] == postcode]
SamePostalCode(rows, code) ==
    LET Keep(row) == row.postalCode = code IN SelectSeq(rows, Keep)

SetZ(rows, z) == [i \in 1..Len(rows) |-> [rows[i] EXCEPT !.z = z]]

PostalFilter ==
    /\ pc = "filter"
    /\ postcode' = normalize_postalcode(postcode)
    /\ IF postcode' # None
       THEN LET kept == SamePostalCode(NormalizeRows(results.rows), postcode') IN
            IF Len(kept) > 1
            THEN /\ results' = DataFrame(get_confidence(kept))
                 /\ scored' = TRUE
            ELSE /\ results' = DataFrame(SetZ(kept, Msg("Sole Postal Code")))
                 /\ scored' = scored
       ELSE /\ results' = DataFrame(get_confidence(results.rows))
            /\ scored' = TRUE
    /\ pc' = "cluster"
    /\ UNCHANGED <<args, hits, attempts, outcomes, trace, clustered, ret, exc,
                   DiagnosticDictionary, caller, postal>>

(***************************************************************************)
(* Clustering and the ambiguity rule                                       *)
(***************************************************************************)
RECURSIVE MaxOf(_, _)
MaxOf(f, n) == IF n = 1 THEN f[1] ELSE LET m == MaxOf(f, n - 1) IN IF f[n] > m THEN f[n] ELSE m
MaxScore(rows) == MaxOf(Scores(rows), Len(rows))

\* results[results["score"] == results["score"].max()]
TopRows(rows) ==
    LET Top(row) == row.score = MaxScore(rows) IN SelectSeq(rows, Top)

\* the rule applied to the cluster of the first row instead of the top row
Ambiguous_first(rows) ==
    LET InTarget(row) == row.clusters = rows[1].clusters
    IN  Len(SelectSeq(rows, InTarget)) # 1

\* len(results[results["clusters"] == targetcluster[0]]) != 1
Ambiguous(rows) ==
    LET targetcluster == [i \in 1..Len(TopRows(rows)) |-> TopRows(rows)[i].clusters]
        InTarget(row) == row.clusters = targetcluster[1]
    IN  Len(SelectSeq(rows, InTarget)) # 1

Cluster ==
    /\ pc = "cluster"
    /\ IF Len(results.rows) > 1
       THEN LET rows == get_cluster(results.rows, args.epsilon) IN
            /\ results' = DataFrame(rows)
            /\ clustered' = TRUE
            /\ IF Ambiguous(rows)
               THEN pc' = "returned" /\ ret' = None
               ELSE pc' = "select" /\ ret' = ret
       ELSE /\ pc' = "select"
            /\ UNCHANGED <<results, clustered, ret>>
    /\ UNCHANGED <<args, hits, attempts, outcomes, trace, postcode, scored, exc,
                   DiagnosticDictionary, caller, postal>>

(***************************************************************************)
(* Selection and the output                                                *)
(***************************************************************************)
PyInt(n) == [ty |-> "int", n |-> n]

\* the product of the two scores, as before the change to the mean
CombinedConfidence_product(LEV, CONF) ==
    IF IsFloat(CONF)
    THEN IF CONF = NaN THEN NaN ELSE Float((LEV * CONF.v) \div 100)
    ELSE PyInt(LEV)

\* if type(CONF) == float: CC = (LEV+CONF)/2  else: CC = LEV
CombinedConfidence(LEV, CONF) ==
    IF IsFloat(CONF)
    THEN IF CONF = NaN THEN NaN ELSE Float((200 * LEV + CONF.v) \div 2)
    ELSE PyInt(LEV)

Max2(a, b) == IF a > b THEN a ELSE b

\* The fields of OutputList that the rest of the record (NAME, ALSO, LOC,
\* DENOM) follows from: they are columns of the row ID names.
OutputList(row, LEV) ==
    [ID |-> row.id, CONF |-> row.z, PC |-> row.postalCode, LEV |-> LEV,
     CC |-> CombinedConfidence(LEV, row.z)]

(***************************************************************************)
(* The diagnostic fields.  DiagnosticDictionary is the caller's dict, kept *)
(* as its items in insertion order.  ComparisonDictionary holds PC, a str, *)
(* under 'PostBool' and the column results['tags.age'], a Series with the  *)
(* one row of the subset, under 'AgeBool'; the table is taken to carry the *)
(* columns ComparisonDictionary reads.  same tells whether the row's       *)
(* tags.age is the expected string.                                        *)
(***************************************************************************)
PyBool(b) == [ty |-> "bool", b |-> b]
Series(v) == [ty |-> "Series", v |-> v]
Item(key, value) == [key |-> key, value |-> value]
Dict(items) == [ty |-> "dict", items |-> items]

\* ComparisonDictionary[i] == DiagnosticDictionary[i]
Comparison(key, PC, same, value) ==
    IF key = "PostBool" THEN PyBool(PC = value)
    ELSE Series(<<same /\ IsStr(value)>>)

\* the boolean kept out of the dictionary
Store_apart(items, n, w) == items

\* DiagnosticDictionary[i] = ...
Store(items, n, w) == [items EXCEPT ![n].value = w]

\* The loop over the first n keys.  A Series in "if DiagnosticDictionary[i]
\* != ''" raises ValueError: the truth value of a Series is ambiguous.
RECURSIVE Enrich(_, _, _, _)
Enrich(items, n, PC, same) ==
    IF n = 0 THEN [items |-> items, appended |-> <<>>, exc |-> "none"]
    ELSE LET before == Enrich(items, n - 1, PC, same)
             value == before.items[n].value
         IN  IF before.exc # "none" THEN before
             ELSE IF value.ty = "Series" THEN [before EXCEPT !.exc = "ValueError"]
             ELSE LET stored ==
                          IF value # Str(<<>>)
                          THEN Store(before.items, n,
                                     Comparison(before.items[n].key, PC, same, value))
                          ELSE before.items
                  IN  [items |-> stored,
                       appended |-> Append(before.appended, stored[n].value),
                       exc |-> "none"]

\* OutputList with the diagnostic values appended
Appended(out, values) == [diag |-> values] @@ out

\* if len(results.index) == 0: return; the subset of the maximum score; the
\* fields of its first row; the two partial ratios; the combined confidence;
\* the diagnostic fields when the call has a DiagnosticDictionary.
Select ==
    /\ pc = "select"
    /\ IF Len(results.rows) = 0
       THEN /\ pc' = "returned"
            /\ ret' = None
            /\ results' = results
            /\ UNCHANGED <<exc, DiagnosticDictionary>>
       ELSE \E nameRatio \in Ratios, alsoRatio \in Ratios, same \in BOOLEAN :
            LET top == TopRows(results.rows)
                out == OutputList(top[1], Max2(nameRatio, alsoRatio))
                d == Enrich(DiagnosticDictionary.items,
                            Len(DiagnosticDictionary.items), out.PC, same)
            IN  /\ results' = DataFrame(top)
                /\ IF DiagnosticDictionary = None
                   THEN /\ pc' = "returned"
                        /\ ret' = out
                        /\ UNCHANGED <<exc, DiagnosticDictionary>>
                   ELSE /\ DiagnosticDictionary' = Dict(d.items)
                        /\ IF d.exc = "none"
                           THEN /\ pc' = "returned"
                                /\ ret' = Appended(out, d.appended)
                                /\ exc' = exc
                           ELSE /\ pc' = "raised"
                                /\ ret' = ret
                                /\ exc' = d.exc
    /\ UNCHANGED <<args, hits, attempts, outcomes, trace, postcode, scored,
                   clustered, caller, postal>>

Next == Attempt \/ Check \/ PostalFilter \/ Cluster \/ Select

Spec == Init /\ [][Next]_vars

(***************************************************************************)
(* Two calls with one DiagnosticDictionary: the caller builds the map,     *)
(* calls WB_Match with it, and calls WB_Match again with the same map      *)
(* object, the same arguments and the same index.                          *)
(***************************************************************************)
MaxHitsDiag == 2

DiagnosticDictionaries ==
    {None,
     Dict(<<Item("PostBool", Str(<<>>))>>),
     Dict(<<Item("PostBool", Str(<<"K", "1", "A", " ", "0", "B", "1">>))>>),
     Dict(<<Item("AgeBool", Str(<<"a">>))>>),
     Dict(<<Item("PostBool", Str(<<"K", "1", "A", " ", "0", "B", "1">>)),
            Item("AgeBool", Str(<<>>))>>)}

DiagArguments ==
    [namestring : {Str(<<"S", "t">>)},
     postcode : {None, Str(<<"k", "1", "a", "0", "b", "1">>)},
     boundaries : {None}, polygon : {None}, epsilon : {4}]

InitDiag ==
    /\ \E a \in DiagArguments : \E h \in HitLists(MaxHitsDiag) : Call(a, h)
    /\ DiagnosticDictionary \in DiagnosticDictionaries
    /\ given = DiagnosticDictionary
    /\ first = NotYet
    /\ NoPostal

\* what the caller keeps of a call that has ended
Ended ==
    [ret |-> ret, exc |-> exc, outcomes |-> outcomes, trace |-> trace,
     DiagnosticDictionary |-> DiagnosticDictionary]

CallAgain ==
    /\ pc \in {"returned", "raised"}
    /\ first = NotYet
    /\ first' = Ended
    /\ args' = args
    /\ hits' = hits
    /\ pc' = "loop"
    /\ attempts' = 0
    /\ outcomes' = <<>>
    /\ trace' = <<>>
    /\ results' = Unbound
    /\ postcode' = args.postcode
    /\ scored' = FALSE
    /\ clustered' = FALSE
    /\ ret' = NotYet
    /\ exc' = "none"
    /\ UNCHANGED <<DiagnosticDictionary, given, postal>>

NextDiag == Next \/ CallAgain

SpecDiag == InitDiag /\ [][NextDiag]_vars

(***************************************************************************)
(* The postal-code functions called on their own, on None, on a float and  *)
(* on the strings of at most MaxCodeLen characters of Alphabet.            *)
(***************************************************************************)
MaxCodeLen == 6
Alphabet == {" ", "a", "1"}

RECURSIVE StringsOf(_)
StringsOf(n) ==
    IF n = 0 THEN {<<>>}
    ELSE LET shorter == StringsOf(n - 1) IN
         shorter \cup {Append(t, c) : t \in {u \in shorter : Len(u) = n - 1}, c \in Alphabet}

Codes == {None, NaN} \cup {Str(t) : t \in StringsOf(MaxCodeLen)}

\* no call of WB_Match is under way
NoCall ==
    /\ args = [namestring |-> None, postcode |-> None, boundaries |-> None,
               polygon |-> None, epsilon |-> 4]
    /\ hits = <<>>
    /\ pc = "idle"
    /\ attempts = 0
    /\ outcomes = <<>>
    /\ trace = <<>>
    /\ results = Unbound
    /\ postcode = None
    /\ scored = FALSE
    /\ clustered = FALSE
    /\ ret = NotYet
    /\ exc = "none"

InitPostal ==
    /\ NoCall
    /\ NoDiagnostics
    /\ text \in Codes
    /\ once = NotYet
    /\ twice = NotYet
    /\ answer = NotYet
    /\ located = NotYet

call == <<args, hits, pc, attempts, outcomes, trace, results, postcode,
          scored, clustered, ret, exc, DiagnosticDictionary, caller>>

Normalize ==
    /\ once = NotYet
    /\ once' = normalize_postalcode(text)
    /\ UNCHANGED <<call, text, twice, answer, located>>

Renormalize ==
    /\ once # NotYet
    /\ twice = NotYet
    /\ twice' = normalize_postalcode(once)
    /\ UNCHANGED <<call, text, once, answer, located>>

Geocode ==
    /\ twice # NotYet
    /\ located = NotYet
    /\ \E lookup \in LookupAnswers :
           /\ answer' = lookup
           /\ located' = get_geocode(text, lookup)
    /\ UNCHANGED <<call, text, once, twice>>

NextPostal == Normalize \/ Renormalize \/ Geocode

SpecPostal == InitPostal /\ [][NextPostal]_vars

(***************************************************************************)
(* What the properties speak of                                            *)
(***************************************************************************)
LastOutcome == outcomes[Len(outcomes)]
Finished == pc \in {"returned", "raised"}
NoMatch == pc = "returned" /\ ret = None /\ exc = "none"
Matched == pc = "returned" /\ ret # None

\* the pipeline ran on a candidate table and WB_Match has returned
Resolved ==
    /\ pc = "returned"
    /\ Len(outcomes) > 0
    /\ LastOutcome = "value"
    /\ args.namestring # None
    /\ Len(hits) > 0

IsSearch(e) == e.ev = "search"
IsGeocode(e) == e.ev = "geocode"
\* the search-index calls and the geocoder calls of the latest attempt
Searches == SelectSeq(trace, IsSearch)
Geocodes == SelectSeq(trace, IsGeocode)

\* the hits that survive the postal filter, by id and as the list of their
\* scores in the order of the table
Survives(i) ==
    \/ args.postcode = None
    \/ normalize_postalcode(hits[i].postalCode) = normalize_postalcode(args.postcode)
SurvivorIds == {i \in 1..Len(hits) : Survives(i)}
RECURSIVE IdList(_)
IdList(n) ==
    IF n = 0 THEN <<>>
    ELSE IF Survives(n) THEN Append(IdList(n - 1), n) ELSE IdList(n - 1)
Survivors == IdList(Len(hits))
SurvivorScores == [k \in 1..Len(Survivors) |-> hits[Survivors[k]].score]
\* the position in Survivors of a candidate of maximum score
TopPosition ==
    CHOOSE k \in 1..Len(Survivors) :
        \A j \in 1..Len(Survivors) : SurvivorScores[j] <= SurvivorScores[k]
TopAlone == Cardinality(ClusterOf(SurvivorScores, TopPosition, args.epsilon)) = 1

(***************************************************************************)
(* C1: if each of the 3 query attempts fails with a transport error,       *)
(* WB_Match ends in NoMatch: it returns the empty result and does not      *)
(* raise.                                                                  *)
(***************************************************************************)
AllAttemptsFailed == outcomes = <<"TransportError", "TransportError", "TransportError">>

\* C1: three transport errors end in NoMatch, with no exception
C1_ExhaustedRetriesGiveNoMatch == (AllAttemptsFailed /\ Finished) => NoMatch

(***************************************************************************)
(* C2: a resolution makes at most 3 ES_Query attempts, starts a further    *)
(* attempt only when the previous one failed with a transport error, and   *)
(* makes none after an attempt that returned a value.                      *)
(***************************************************************************)
C2_RetryOnlyOnTransportError ==
    /\ attempts = Len(outcomes)
    /\ attempts <= 3
    /\ \A i \in 2..Len(outcomes) : outcomes[i - 1] = "TransportError"

C2_Witness == outcomes = <<"TransportError", "TransportError", "value">>

(***************************************************************************)
(* C3: when more than one candidate survives the postal filter, WB_Match   *)
(* returns a match if and only if the cluster of the maximum-score         *)
(* candidate has exactly one member, and the match is that candidate;      *)
(* scores [50, 51] with epsilon 4 give no match, scores [10, 90] with      *)
(* epsilon 4 give the candidate scoring 90.                                *)
(***************************************************************************)
C3_MatchIffTopClusterIsSingleton ==
    (Resolved /\ Len(Survivors) > 1) =>
        /\ Matched <=> TopAlone
        /\ Matched => ret.ID = Survivors[TopPosition]
        /\ (SurvivorScores = <<50, 51>> /\ args.epsilon = 4) => ret = None
        /\ (SurvivorScores = <<10, 90>> /\ args.epsilon = 4) =>
               (Matched /\ hits[ret.ID].score = 90)

C3_Witness ==
    /\ Resolved
    /\ SurvivorScores = <<10, 90>>
    /\ args.epsilon = 4
    /\ Matched
    /\ clustered

(***************************************************************************)
(* C4, as the code has it: an ES_Query invocation that has a name issues   *)
(* at most one search-index call, exactly one unless the invocation        *)
(* raises before the call; the geo filter of the call is the polygon if    *)
(* one is given, otherwise the bounding box with its midpoint as center if *)
(* boundaries are given, otherwise the reverse-geocoded center point if    *)
(* the postcode normalizes to a Canadian postal code, otherwise none.      *)
(***************************************************************************)
WellFormed(code) == code # None /\ zipCodeMatch(normalize_postalcode(code).v)

Midpoint(p) ==
    /\ 2 * p.center[1] = p.lowerbounds[1] + p.upperbounds[1]
    /\ 2 * p.center[2] = p.lowerbounds[2] + p.upperbounds[2]

\* the filter of params is the one the priority chain picks, a postcode
\* counting when centered holds
FilterByPriority(p, centered) ==
    /\ p.keywords = args.namestring
    /\ IF args.polygon # None
       THEN p.geo = "polygon" /\ p.polygon = args.polygon
       ELSE IF args.boundaries # None
       THEN /\ p.geo = "bounds"
            /\ Midpoint(p)
            /\ args.boundaries.ty = "list" =>
                   /\ p.lowerbounds = args.boundaries.v[1]
                   /\ p.upperbounds = args.boundaries.v[2]
       ELSE IF centered
       THEN p.geo = "center" /\ p.center \in LookupAnswers
       ELSE p.geo = "none"

Queried == attempts >= 1 /\ args.namestring # None
\* ... and the name is not the empty string either
QueriedByName == Queried /\ args.namestring # Str(<<>>)

EmptyName == args.namestring = None \/ args.namestring = Str(<<>>)

\* C5: a missing or empty name gives no call, one attempt and NoMatch
C5_EmptyNameFailsFast ==
    (EmptyName /\ attempts >= 1) =>
        /\ trace = <<>>
        /\ outcomes = <<"value">>
        /\ pc = "after" => results = Msg("No name supplied")
        /\ Finished => NoMatch

(***************************************************************************)
(* C6: for every boundary text or structured address, when the geocoder    *)
(* finds nothing get_bounds retries exactly once with the text after the   *)
(* first comma, and when that finds nothing either it returns the          *)
(* country-wide box [[-166.73, 76.27], [-28.74, 41.18]]; a geocode miss    *)
(* never raises.                                                           *)
(***************************************************************************)
Resolving ==
    /\ QueriedByName
    /\ args.polygon = None
    /\ args.boundaries # None
    /\ args.boundaries.ty \in {"str", "dict"}

\* C6: a miss is retried once, a second miss gives the country-wide box,
\* and no miss raises
C6_GeocodeMissFallsBack ==
    (Resolving /\ Geocodes[1].answer = Miss) =>
        /\ Len(Geocodes) = 2
        /\ LastOutcome \in {"value", "TransportError"}
        /\ Geocodes[2].answer = Miss =>
               /\ Searches[1].params.lowerbounds = <<-33346, 15254>>
               /\ Searches[1].params.upperbounds = <<-5748, 8236>>

(***************************************************************************)
(* C7: whenever a geocoder call of get_bounds finds a place, on the first  *)
(* query or on the broadened retry, get_bounds sleeps at least RateLimiter *)
(* seconds after that call and before it returns the bounding box (which   *)
(* ES_Query then searches with).                                           *)
(***************************************************************************)
C7_SleepAfterGeocodeHit ==
    \A i \in 1..Len(trace) :
        (IsGeocode(trace[i]) /\ trace[i].answer # Miss) =>
            /\ Len(trace) = i + 2
            /\ trace[i + 1].ev = "sleep"
            /\ trace[i + 1].secs >= 1
            /\ IsSearch(trace[i + 2])
            /\ trace[i + 2].params.lowerbounds =
                   <<trace[i].answer.boundingbox[3], trace[i].answer.boundingbox[2]>>

C7_Witness ==
    /\ Len(Geocodes) = 2
    /\ Geocodes[1].answer = Miss
    /\ Geocodes[2].answer # Miss
    /\ Len(trace) = 4
    /\ trace[3].ev = "sleep"

(***************************************************************************)
(* C8: when a postcode is given, WB_Match keeps only the candidates whose  *)
(* normalized postal code equals the normalized input postcode; if exactly *)
(* one remains it receives the 'Sole Postal Code' confidence and neither   *)
(* scoring nor clustering runs; if none remains the result is NoMatch.     *)
(***************************************************************************)
RowIds(rows) == {rows[i].id : i \in 1..Len(rows)}

Sentinels == {Msg("Sole Postal Code"), Msg("Sole Return Before Clustering")}

\* C9: CC is LEV for a sentinel CONF and (LEV + CONF) / 2 for a float CONF
C9_CombinedConfidence ==
    Matched =>
        IF ret.CONF \in Sentinels
        THEN ret.CC = PyInt(ret.LEV)
        ELSE /\ IsFloat(ret.CONF)
             /\ ret.CONF # NaN
             /\ IsFloat(ret.CC)
             /\ 2 * ret.CC.v = 200 * ret.LEV + ret.CONF.v

C9_Witness ==
    /\ Matched
    /\ IsFloat(ret.CONF)
    /\ ret.CONF.v > 0
    /\ ret.LEV = 40

(***************************************************************************)
(* C10: when the postcode does not match the Canadian pattern and no       *)
(* polygon or boundaries are given, the index is queried with no geo       *)
(* filter and the resolution proceeds as a name-only search would.         *)
(***************************************************************************)
Malformed == args.postcode # None /\ ~zipCodeMatch(normalize_postalcode(args.postcode).v)

AllScores == [i \in 1..Len(hits) |-> hits[i].score]
TopHit == CHOOSE i \in 1..Len(hits) : \A j \in 1..Len(hits) : hits[j].score <= hits[i].score
\* the id a search by name alone resolves the hits to, 0 when to none
NameOnlyMatch ==
    IF Len(hits) = 1 THEN 1
    ELSE IF Cardinality(ClusterOf(AllScores, TopHit, args.epsilon)) = 1 THEN TopHit
    ELSE 0

\* C10: with a malformed postcode the query has no geo filter and the result
\* is the one of the name-only resolution
C10_MalformedPostcodeIsNameOnly ==
    (Malformed /\ args.polygon = None /\ args.boundaries = None /\ Resolved
        /\ args.namestring # Str(<<>>)) =>
        /\ Searches[1].params.geo = "none"
        /\ IF NameOnlyMatch = 0 THEN ret = None
           ELSE Matched /\ ret.ID = NameOnlyMatch

(***************************************************************************)
(* C11: the outcome of WB_Match for an ambiguous match (the top-scoring    *)
(* candidate shares its cluster with others) against its outcome when the  *)
(* index returned zero candidates.  Both are the empty result with no      *)
(* exception; what differs is inside the call: with zero candidates the    *)
(* query's result is the message "No match found" and nothing is           *)
(* clustered, an ambiguous match has a table of candidates that was        *)
(* clustered.                                                              *)
(***************************************************************************)
Outcome == [ret |-> ret, exc |-> exc]
EmptyOutcome == [ret |-> None, exc |-> "none"]

\* the index was searched, returned no hit, and WB_Match has returned
ZeroCandidates ==
    /\ pc = "returned"
    /\ Len(outcomes) > 0
    /\ LastOutcome = "value"
    /\ args.namestring # None
    /\ Len(hits) = 0
AmbiguousMatch == Resolved /\ Len(Survivors) > 1 /\ ~TopAlone

\* C11 as claimed: the outcome of an ambiguous match differs from the
\* outcome of a resolution whose index returned zero candidates
C11_AsClaimed == (AmbiguousMatch /\ QueriedByName) => Outcome # EmptyOutcome

\* C11: zero candidates and an ambiguous match both end in the empty result
\* with no exception; they differ in results (the message "No match found",
\* unclustered, against a clustered table of candidates)
C11_SameOutcomeDifferentResults ==
    /\ ZeroCandidates =>
           /\ Outcome = EmptyOutcome
           /\ results = Msg("No match found")
           /\ ~clustered
    /\ AmbiguousMatch =>
           /\ Outcome = EmptyOutcome
           /\ IsDataFrame(results)
           /\ clustered

C11_Witness == AmbiguousMatch /\ Len(hits) = 3 /\ Len(Survivors) = 2

C11_WitnessZero == ZeroCandidates /\ QueriedByName

(***************************************************************************)
(* C14: for two or more candidates whose relevance scores are all equal,   *)
(* get_confidence does not divide by zero: every confidence it sets is a   *)
(* number, none the NaN that the division of 0 by a zero standard          *)
(* deviation gives.                                                        *)
(***************************************************************************)
IdenticalScores(rows) == \A i, j \in 1..Len(rows) : rows[i].score = rows[j].score

\* C14: the confidences of two or more candidates of identical score are
\* not the NaN of a division by the zero standard deviation
C14_NoDivisionByZero ==
    (pc = "cluster" /\ scored /\ Len(results.rows) >= 2
        /\ IdenticalScores(results.rows) /\ args.namestring # Str(<<>>)) =>
        \A i \in 1..Len(results.rows) : results.rows[i].z # NaN

(***************************************************************************)
(* C16: whenever WB_Match returns a match, exactly one surviving candidate *)
(* has the maximum score, it is the match, and the score of every other    *)
(* surviving candidate is below it by more than epsilon; the subset of     *)
(* maximum score the fields are read from has that one row.                *)
(***************************************************************************)
C16_MatchIsIsolatedTop ==
    Matched =>
        /\ ret.ID \in SurvivorIds
        /\ \A j \in SurvivorIds \ {ret.ID} :
               hits[ret.ID].score - hits[j].score > args.epsilon
        /\ Len(results.rows) = 1

C16_Witness ==
    /\ Matched
    /\ Cardinality(SurvivorIds) = 3
    /\ args.epsilon = 40
    /\ ret.ID = 2

(***************************************************************************)
(* C12: get_geocode returns None both when the normalized postal code does *)
(* not match the Canadian pattern and when the pattern matches but the     *)
(* offline lookup has no entry for the code; it returns a [longitude,      *)
(* latitude] pair only for a successful lookup.                            *)
(***************************************************************************)
PatternValid(location) ==
    /\ IsStr(location)
    /\ zipCodeMatch(normalize_postalcode(location).v)

\* C12: get_geocode returns the pair of a successful lookup, and None when
\* the pattern does not match or the lookup has no entry
C12_GeocodeEmptyUnlessFound ==
    located # NotYet =>
        IF PatternValid(text) /\ answer # NaNPair
        THEN located = answer
        ELSE located = None

(***************************************************************************)
(* C13: normalize_postalcode is idempotent: for None, a float and every    *)
(* string of letters, digits and spaces x,                                 *)
(* normalize_postalcode(normalize_postalcode(x)) equals                    *)
(* normalize_postalcode(x).                                                *)
(***************************************************************************)
C13_NormalizeIdempotent == twice # NotYet => twice = once

C13_Witness ==
    /\ text = Str(<<" ", "a", "1", "a", "1", "a">>)
    /\ once = Str(<<"A", "1", "A", "1", "A">>)
    /\ twice = once

C13_WitnessSpaced ==
    /\ text = Str(<<"a", "1", "a", "1", "a", "1">>)
    /\ twice = Str(<<"A", "1", "A", " ", "1", "A", "1">>)

(***************************************************************************)
(* C15: a call of WB_Match and the caller's DiagnosticDictionary.  As      *)
(* claimed, the call leaves the map as it was given, and a second call     *)
(* with the same map and the same index responses returns what the first   *)
(* returned.  In the code a call that returns a match stores, under every  *)
(* key whose value is not '', the result of the comparison (a bool, or a   *)
(* Series of bools for a column) and leaves the values '' as they are; a   *)
(* call that returns no match leaves the map as given; the values          *)
(* appended to the output are those of the map after the call; and the     *)
(* second call returns what the first returned when the first left the map *)
(* as given.                                                               *)
(***************************************************************************)
FirstEnded == first = NotYet /\ Finished /\ given # None
SecondEnded == first # NotYet /\ Finished /\ given # None

\* the index and the scorers answered the second call as they did the first
SameResponses ==
    /\ outcomes = first.outcomes
    /\ trace = first.trace
    /\ (Matched /\ first.ret \notin {None, NotYet}) => ret.LEV = first.ret.LEV

Values(d) == [i \in 1..Len(d.items) |-> d.items[i].value]

C15_WitnessSeries ==
    /\ SecondEnded
    /\ SameResponses
    /\ first.ret \notin {None, NotYet}
    /\ exc = "ValueError"

====
